---- MODULE Spec2Model ----
(***************************************************************************)
(* NewsSense: the three capability invokers of main.py (get_trending_news, *)
(* fact_check_claim, summarize_news), the presentation adapter             *)
(* format_response and the Streamlit chat driver of ui_Main.py.            *)
(*                                                                         *)
(* Text is a sequence of parts.  A part is a single character ("-", " ",   *)
(* "\t", "\n", "U+2022" for the bullet character) or a run of characters   *)
(* taken as a whole; in a completion text a run holds no line break and    *)
(* neither starts nor ends with "-", the bullet or a white space           *)
(* character.  "U+2013" stands for the en dash.  The empty text is <<>>.   *)
(* A Python value that is None or a str is a record [p, s]: p is "null" or *)
(* "str" ("absent" for a key a mapping does not hold), s its text.         *)
(***************************************************************************)
EXTENDS Integers, Sequences, FiniteSets, TLC

VARIABLES
    call,                \* the capability invocation: tool, arguments, the provider's outcome
    ret,                 \* what the invoker returned to its caller
    fmt_in,              \* the argument of format_response
    fmt_out,             \* the result of format_response
    chat_history,        \* st.session_state.chat_history
    thread_id,           \* st.session_state.thread_id
    user_context,        \* st.session_state.user_context
    processing_message,  \* st.session_state.processing_message
    turn,                \* where the running script is: idle, or waiting in line 147
    last                 \* what the last step did (observation, not program state)

vars == <<call, ret, fmt_in, fmt_out, chat_history, thread_id, user_context,
          processing_message, turn, last>>

toolVars == <<call, ret>>
fmtVars == <<fmt_in, fmt_out>>
uiVars == <<chat_history, thread_id, user_context, processing_message, turn, last>>

(***************************************************************************)
(* Bounds of the model.                                                    *)
(***************************************************************************)
MaxArticles == 2
MaxItems == 4
MaxLen == 4
MaxList == 2
MaxHistory == 5
MaxBatch == 2

(***************************************************************************)
(* Python values.                                                          *)
(***************************************************************************)
Absent == [p |-> "absent", s |-> <<>>]
Null == [p |-> "null", s |-> <<>>]
S(t) == [p |-> "str", s |-> t]
Lit(x) == [p |-> "str", s |-> <<x>>]

\* dict.get(key, default): the default only when the key is absent
Get(v, default) == IF v.p = "absent" THEN default ELSE v

RECURSIVE SeqsUpTo(_, _)
SeqsUpTo(A, n) ==
    IF n = 0 THEN {<<>>}
    ELSE LET shorter == SeqsUpTo(A, n - 1)
         IN shorter \cup {Append(q, a) : q \in {r \in shorter : Len(r) = n - 1}, a \in A}

(***************************************************************************)
(* get_trending_news                                                       *)
(***************************************************************************)
\* the name of an article's source: absent, null, or an object with a name
SrcAbsent == [p |-> "absent", name |-> Absent]
SrcNull == [p |-> "null", name |-> Absent]
SrcObj(n) == [p |-> "obj", name |-> n]

Art(t, s, d) == [dict |-> TRUE, title |-> t, source |-> s, description |-> d]
\* an element of "articles" that is no JSON object (a string, say)
NonDictArticle == [dict |-> FALSE, title |-> Absent, source |-> SrcAbsent, description |-> Absent]

Articles ==
    {Art(t, s, d) : t \in {Absent, Null, Lit("T1")},
                    s \in {SrcAbsent, SrcNull, SrcObj(Lit("N1"))},
                    d \in {Absent, Lit("D1")}}
    \cup {Art(Lit("T2"), SrcObj(Absent), Null), NonDictArticle}

\* an article the list comprehension of lines 98-106 can read without raising
ArticleReadable(a) == a.dict /\ a.source.p \in {"absent", "obj"}

\* The body of an HTTP response: json is "invalid" (response.json() raises),
\* "array" (a JSON value that is no object) or "object"; for an object, field
\* is how it holds the key the invoker reads ("absent", "null" or "list") and
\* list the elements; text is response.text.
Body(j, f, l, t) == [json |-> j, field |-> f, list |-> l, text |-> t]

NewsBodies ==
    {Body("invalid", "absent", <<>>, <<"Internal Server Error">>),
     Body("array", "absent", <<>>, <<"[]">>),
     Body("object", "absent", <<>>, <<"{}">>),
     Body("object", "null", <<>>, <<"{articles: null}">>)}
    \cup {Body("object", "list", l, <<"{articles: [..]}">>) : l \in SeqsUpTo(Articles, MaxArticles)}

StatusCodes == {200, 500}

\* requests.get either raises or returns a response
Raised(msg) == [kind |-> "raise", status |-> 0, body |-> Body("invalid", "absent", <<>>, <<>>), msg |-> msg]
Response(st, b) == [kind |-> "response", status |-> st, body |-> b, msg |-> <<>>]

NewsOutcomes ==
    {Raised(<<"Connection refused">>)}
    \cup {Response(st, b) : st \in StatusCodes, b \in NewsBodies}

\* topic: Optional[str] = "latest"
Topics == {Null, S(<<>>), Lit("tech")}

NewsItem(h, s, c, sm, r) ==
    [headline |-> h, source |-> s, category |-> c, summary |-> sm, rank |-> r]

Returned(tool, v) == [tool |-> tool, raised |-> FALSE, value |-> v]

\* ArticleItem with the rank left at the index enumerate() yields (i instead of i + 1)
ArticleItemRankFromZero(a, topic, i) ==
    NewsItem(Get(a.title, Lit("No headline")),
             Get(a.source.name, Lit("Unknown")),
             topic,
             Get(a.description, S(<<>>)),
             i - 1)

\* lines 98-106: one result per article, rank i + 1 for the article at index i
\* (i here counts from 1, enumerate() from 0)
ArticleItem(a, topic, i) ==
    NewsItem(Get(a.title, Lit("No headline")),
             Get(a.source.name, Lit("Unknown")),
             topic,
             Get(a.description, S(<<>>)),
             i)

\* lines 110-117: the except clause
NewsError(topic, msg) ==
    <<NewsItem(Lit("Error fetching news"), Lit("Exception"), topic, S(msg), 1)>>

\* lines 79-86
NewsApiError(topic, o) ==
    <<NewsItem(Lit("Failed to fetch news"), Lit("System"), topic,
               S(<<"API error ", ToString(o.status), ": ">> \o o.body.text), 1)>>

\* lines 89-96
NewsEmpty(topic) ==
    <<NewsItem(Lit("No news found"), Lit("GNews"), topic,
               Lit("No articles found for this topic."), 1)>>

get_trending_news(topic, o) ==
    IF o.kind = "raise" THEN Returned("news", NewsError(topic, o.msg))
    ELSE IF o.status # 200 THEN Returned("news", NewsApiError(topic, o))
    ELSE IF o.body.json = "invalid"
        THEN Returned("news", NewsError(topic, <<"Expecting value: line 1 column 1 (char 0)">>))
    ELSE IF o.body.json = "array"
        THEN Returned("news", NewsError(topic, <<"'list' object has no attribute 'get'">>))
    ELSE IF o.body.field # "list" \/ o.body.list = <<>>
        THEN Returned("news", NewsEmpty(topic))
    ELSE LET arts == o.body.list
             bad == {i \in 1..Len(arts) : ~ArticleReadable(arts[i])}
             first == CHOOSE i \in bad : \A j \in bad : i <= j
         IN IF bad = {}
                THEN Returned("news", [i \in 1..Len(arts) |-> ArticleItem(arts[i], topic, i)])
            ELSE IF ~arts[first].dict
                THEN Returned("news", NewsError(topic, <<"'str' object has no attribute 'get'">>))
            ELSE Returned("news", NewsError(topic, <<"'NoneType' object has no attribute 'get'">>))

(***************************************************************************)
(* fact_check_claim                                                        *)
(***************************************************************************)
\* items[:3]
MaxSources == 3

\* an element of "items": a JSON object that may hold "link", or no object
Item(l) == [dict |-> TRUE, link |-> l]
NonDictItem == [dict |-> FALSE, link |-> Absent]

Items == {Item(Lit("L1")), Item(Lit("L2")), Item(Null), Item(Absent), NonDictItem}

FactBodies ==
    {Body("invalid", "absent", <<>>, <<"Internal Server Error">>),
     Body("array", "absent", <<>>, <<"[]">>),
     Body("object", "absent", <<>>, <<"{error: {code: 500}}">>),
     Body("object", "null", <<>>, <<"{items: null}">>)}
    \cup {Body("object", "list", l, <<"{items: [..]}">>) : l \in SeqsUpTo(Items, MaxItems)}

FactOutcomes ==
    {Raised(<<"Connection refused">>)}
    \cup {Response(st, b) : st \in StatusCodes, b \in FactBodies}

FactResult(v, srcs) == [is_true |-> Null, verdict |-> v, sources |-> srcs]

\* lines 132-137: the except clause
FactError(msg) == FactResult(S(<<"Error: ">> \o msg), <<>>)

\* Take without the slice: every item is read
TakeAll(s, n) == s

\* s[:n]
Take(s, n) == SubSeq(s, 1, IF Len(s) < n THEN Len(s) ELSE n)

fact_check_claim(claim, o) ==
    IF o.kind = "raise" THEN Returned("fact", FactError(o.msg))
    ELSE IF o.body.json = "invalid"
        THEN Returned("fact", FactError(<<"Expecting value: line 1 column 1 (char 0)">>))
    ELSE IF o.body.json = "array"
        THEN Returned("fact", FactError(<<"'list' object has no attribute 'get'">>))
    ELSE IF o.body.field = "null"
        THEN Returned("fact", FactError(<<"'NoneType' object is not subscriptable">>))
    ELSE LET items == IF o.body.field = "absent" THEN <<>> ELSE o.body.list
             head == Take(items, MaxSources)
             bad == {i \in 1..Len(head) : ~head[i].dict \/ head[i].link.p = "absent"}
             first == CHOOSE i \in bad : \A j \in bad : i <= j
         IN IF bad = {}
                THEN Returned("fact",
                         FactResult(IF items = <<>> THEN Lit("Unverified claim")
                                    ELSE Lit("Supporting sources found"),
                                    [i \in 1..Len(head) |-> head[i].link]))
            ELSE IF ~head[first].dict
                THEN Returned("fact", FactError(<<"string indices must be integers, not 'str'">>))
            ELSE Returned("fact", FactError(<<"'link'">>))

Claims == {<<"Did Apple acquire OpenAI?">>}

FactCalls == {[tool |-> "fact", claim |-> c, outcome |-> o] : c \in Claims, o \in FactOutcomes}

(***************************************************************************)
(* summarize_news                                                          *)
(***************************************************************************)
\* str.strip() with no argument strips white space
Whitespace == {" ", "\t", "\n"}
\* line.strip("-• ")
StripChars == {"-", "U+2022", " "}

RECURSIVE LStrip(_, _)
LStrip(t, cs) == IF t # <<>> /\ Head(t) \in cs THEN LStrip(Tail(t), cs) ELSE t

RECURSIVE RStrip(_, _)
RStrip(t, cs) ==
    IF t # <<>> /\ t[Len(t)] \in cs THEN RStrip(SubSeq(t, 1, Len(t) - 1), cs) ELSE t

\* str.strip(chars)
Strip(t, cs) == RStrip(LStrip(t, cs), cs)

\* str.split("\n"): the pieces between the line breaks, empty ones included
RECURSIVE Split(_)
Split(t) ==
    IF \A i \in 1..Len(t) : t[i] # "\n" THEN <<t>>
    ELSE LET i == CHOOSE k \in 1..Len(t) : t[k] = "\n" /\ \A j \in 1..(k - 1) : t[j] # "\n"
         IN <<SubSeq(t, 1, i - 1)>> \o Split(SubSeq(t, i + 1, Len(t)))

\* [f(x) for x in q if keep(x)] of line 148
RECURSIVE SummaryLines(_)
SummaryLines(lines) ==
    IF lines = <<>> THEN <<>>
    ELSE LET line == Head(lines)
             rest == SummaryLines(Tail(lines))
         IN IF Strip(line, Whitespace) # <<>>
                THEN <<S(Strip(Strip(line, StripChars), Whitespace))>> \o rest
            ELSE rest

SummaryResult(topic, points) == [topic |-> topic, bullet_points |-> points]

\* lines 153-157: the except clause
SummaryError(msg) ==
    SummaryResult(Lit("Summarization Error"), <<S(<<"Failed to summarize article: ">> \o msg)>>)

\* The completion call: "raise" (the call raises), "coroutine" (the call of the
\* AsyncOpenAI client, which returns a coroutine that line 143 does not await),
\* "nochoices" (a response with an empty choices list) or "response" (a
\* response whose first choice holds content, None or a str).
Completion(k, c, msg) == [kind |-> k, content |-> c, msg |-> msg]

ScenarioCompletion ==
    <<"-", " ", "point one", "\n", "-", " ", "point two", "\n", "-", " ", "point three">>

CompletionChars == {"-", "U+2022", " ", "\t", "\n", "a"}

CompletionTexts == SeqsUpTo(CompletionChars, MaxLen) \cup {ScenarioCompletion}

SumOutcomes ==
    {Completion("raise", Null, <<"Connection error.">>),
     Completion("coroutine", Null, <<>>),
     Completion("nochoices", Null, <<>>),
     Completion("response", Null, <<>>)}
    \cup {Completion("response", S(t), <<>>) : t \in CompletionTexts}

summarize_news(article_text, o) ==
    IF o.kind = "raise" THEN Returned("sum", SummaryError(o.msg))
    ELSE IF o.kind = "coroutine"
        THEN Returned("sum", SummaryError(<<"'coroutine' object has no attribute 'choices'">>))
    ELSE IF o.kind = "nochoices"
        THEN Returned("sum", SummaryError(<<"list index out of range">>))
    ELSE IF o.content.p # "str"
        THEN Returned("sum", SummaryError(<<"'NoneType' object has no attribute 'strip'">>))
    ELSE Returned("sum",
             SummaryResult(Lit("Custom Article Summary"),
                           SummaryLines(Split(Strip(o.content.s, Whitespace)))))

ArticleTexts == {<<"OpenAI expands GPT access to new platforms">>}

SumCalls == {[tool |-> "sum", article_text |-> a, outcome |-> o] : a \in ArticleTexts, o \in SumOutcomes}

NewsCalls == {[tool |-> "news", topic |-> t, outcome |-> o] : t \in Topics, o \in NewsOutcomes}


(***************************************************************************)
(* format_response                                                         *)
(***************************************************************************)
\* A list-valued key of a mapping: absent, None, or a list of values.
ListAbsent == [p |-> "absent", l |-> <<>>]
ListNull == [p |-> "null", l |-> <<>>]
ListOf(l) == [p |-> "list", l |-> l]

\* The keys of a mapping that format_response reads.
Fields(h, so, sm, v, srcs, t, bp) ==
    [headline |-> h, source |-> so, summary |-> sm, verdict |-> v, sources |-> srcs,
     topic |-> t, bullet_points |-> bp]

NoFields == Fields(Absent, Absent, Absent, Absent, ListAbsent, Absent, ListAbsent)

\* A value handed to format_response: kind is "pydantic" (it has model_dump),
\* "object" (it has __dict__), "dict", or "plain" (a str, a number, None);
\* fields is model_dump(), __dict__ or the dict itself; text is str(value) of a
\* plain value.
Value(k, f, t) == [kind |-> k, fields |-> f, text |-> t]
Plain(t) == Value("plain", NoFields, t)

\* the typed results of main.py lines 34-48, as the agents hand them over
TrendingNewsItem(h, so, sm) ==
    Value("pydantic", Fields(h, so, sm, Absent, ListAbsent, Absent, ListAbsent), <<>>)
FactCheckResult(v, srcs) ==
    Value("pydantic", Fields(Absent, Absent, Absent, v, ListOf(srcs), Absent, ListAbsent), <<>>)
NewsSummary(t, bp) ==
    Value("pydantic", Fields(Absent, Absent, Absent, Absent, ListAbsent, t, ListOf(bp)), <<>>)

\* str(x) inside an f-string
StrOf(v) == IF v.p = "str" THEN v.s ELSE <<"None">>

\* str(output) of line 90, output by then a mapping
MappingText(f) == <<ToString(f)>>

\* '\n'.join(line(x) for x in l), line(x) a text
RECURSIVE JoinLines(_)
JoinLines(ls) ==
    IF ls = <<>> THEN <<>>
    ELSE IF Len(ls) = 1 THEN ls[1]
    ELSE ls[1] \o <<"\n">> \o JoinLines(Tail(ls))

\* f"- [{s}]({s})"
SourceLine(x) == <<"- [">> \o StrOf(x) \o <<"](">> \o StrOf(x) \o <<")">>
\* f"- {pt}"
BulletLine(x) == <<"- ">> \o StrOf(x)

Rendered(t) == [done |-> TRUE, raised |-> FALSE, text |-> t]
RenderRaised(msg) == [done |-> TRUE, raised |-> TRUE, text |-> msg]
NotFormatted == [done |-> FALSE, raised |-> FALSE, text |-> <<>>]

\* line 82
RenderTrending(f) ==
    IF f.source.p = "absent" THEN RenderRaised(<<"'source'">>)
    ELSE IF f.summary.p = "absent" THEN RenderRaised(<<"'summary'">>)
    ELSE Rendered(<<"**">> \o StrOf(f.headline) \o <<"**\n\n_">> \o StrOf(f.source)
                  \o <<" U+2013 ">> \o StrOf(f.summary))

\* lines 84-85
RenderFactCheck(f) ==
    IF f.sources.p = "null" THEN RenderRaised(<<"'NoneType' object is not iterable">>)
    ELSE Rendered(<<"**Verdict:** ">> \o StrOf(f.verdict) \o <<"\n\n**Sources:**\n">>
                  \o JoinLines([i \in 1..Len(f.sources.l) |-> SourceLine(f.sources.l[i])]))

\* lines 87-88
RenderSummary(f) ==
    IF f.bullet_points.p = "null" THEN RenderRaised(<<"'NoneType' object is not iterable">>)
    ELSE IF f.topic.p = "absent" THEN RenderRaised(<<"'topic'">>)
    ELSE Rendered(<<"**Topic:** ">> \o StrOf(f.topic) \o <<"\n\n">>
                  \o JoinLines([i \in 1..Len(f.bullet_points.l) |-> BulletLine(f.bullet_points.l[i])]))

\* the dispatch with the test of line 86 made on "topic"
FormatMappingByTopic(f) ==
    IF f.headline.p # "absent" THEN RenderTrending(f)
    ELSE IF f.verdict.p # "absent" THEN RenderFactCheck(f)
    ELSE IF f.topic.p # "absent" THEN RenderSummary(f)
    ELSE Rendered(MappingText(f))

\* lines 80-90, for a mapping
FormatMapping(f) ==
    IF f.headline.p # "absent" THEN RenderTrending(f)
    ELSE IF f.verdict.p # "absent" THEN RenderFactCheck(f)
    ELSE IF f.bullet_points.p # "absent" THEN RenderSummary(f)
    ELSE Rendered(MappingText(f))

format_response(output) ==
    IF output.kind = "plain" THEN Rendered(output.text)
    ELSE FormatMapping(output.fields)

FmtScalars(k) == {Absent, Lit(k)}
FmtListElems == {Lit("x"), Lit("y")}
FmtLists == {ListAbsent, ListNull} \cup {ListOf(l) : l \in SeqsUpTo(FmtListElems, MaxList)}

FmtValues ==
    {Value(k, Fields(h, so, sm, v, srcs, t, bp), <<>>) :
        k \in {"pydantic", "object", "dict"},
        h \in {Absent, Null, Lit("H")}, so \in FmtScalars("SO"), sm \in FmtScalars("SM"),
        v \in FmtScalars("V"), srcs \in FmtLists,
        t \in FmtScalars("T"), bp \in FmtLists}
    \cup {Plain(<<"Here is the news.">>), Plain(<<"42">>), Plain(<<"None">>)}


(***************************************************************************)
(* The parts of the state a specification does not use stay as follows.    *)
(***************************************************************************)
NoCall == [tool |-> "none"]
NotReturned == [tool |-> "none", raised |-> FALSE, value |-> <<>>]

NoValue == Value("none", NoFields, <<>>)

IdleTools == call = NoCall /\ ret = NotReturned
IdleFmt == fmt_in = NoValue /\ fmt_out = NotFormatted
IdleUi ==
    /\ chat_history = <<>> /\ thread_id = <<>> /\ user_context = <<>>
    /\ processing_message = Null /\ turn = <<>> /\ last = <<>>

(***************************************************************************)
(* The capability invokers, each called once on an enumerated input.       *)
(***************************************************************************)
InvokeGetTrendingNews ==
    /\ call.tool = "news"
    /\ ret.tool = "none"
    /\ ret' = get_trending_news(call.topic, call.outcome)
    /\ UNCHANGED <<call, fmtVars, uiVars>>

InvokeFactCheckClaim ==
    /\ call.tool = "fact"
    /\ ret.tool = "none"
    /\ ret' = fact_check_claim(call.claim, call.outcome)
    /\ UNCHANGED <<call, fmtVars, uiVars>>

InvokeSummarizeNews ==
    /\ call.tool = "sum"
    /\ ret.tool = "none"
    /\ ret' = summarize_news(call.article_text, call.outcome)
    /\ UNCHANGED <<call, fmtVars, uiVars>>

InitTools ==
    /\ \/ call \in NewsCalls
       \/ call \in FactCalls
       \/ call \in SumCalls
    /\ ret = NotReturned
    /\ IdleFmt /\ IdleUi

NextTools == InvokeGetTrendingNews \/ InvokeFactCheckClaim \/ InvokeSummarizeNews

SpecTools == InitTools /\ [][NextTools]_vars

(***************************************************************************)
(* format_response, called once on an enumerated value.                    *)
(***************************************************************************)
FormatResponse ==
    /\ fmt_in.kind # "none"
    /\ ~fmt_out.done
    /\ fmt_out' = format_response(fmt_in)
    /\ UNCHANGED <<fmt_in, toolVars, uiVars>>

InitFmt ==
    /\ fmt_in \in FmtValues
    /\ fmt_out = NotFormatted
    /\ IdleTools /\ IdleUi

NextFmt == FormatResponse

SpecFmt == InitFmt /\ [][NextFmt]_vars

(***************************************************************************)
(* The chat driver of ui_Main.py.  Streamlit runs the script from top to   *)
(* bottom once per event; st.session_state outlives the runs.  A run sees  *)
(* at most one widget event, and it may find a message pending whatever    *)
(* the event is.  A run that takes the pending message waits in line 147   *)
(* for Runner.run: the run up to the wait is one step, its end another.    *)
(***************************************************************************)
\* str(uuid.uuid4())
UUIDs == {"uuid-a", "uuid-b"}
\* datetime.now() when the session starts
Times == {"09:00"}
\* datetime.now().strftime("%I:%M %p")
Timestamps == {"09:00 AM", "09:01 AM"}
\* the options of line 104; preferred_topics is kept as a set
TopicOptions == {"tech", "politics", "finance", "health"}
TopicSelections == {{}, {"tech", "politics"}}

Messages == {<<"What's trending in tech today?">>, <<"Did Apple acquire OpenAI?">>}

\* main.py lines 50-60: UserContext(user_id=...), __post_init__ filling the rest;
\* obj numbers the UserContext objects constructed in the session
UserContext(obj, uid, now) ==
    [obj |-> obj, user_id |-> uid, preferred_topics |-> {}, session_start |-> now]

Turn(role, content, ts) == [role |-> role, content |-> content, timestamp |-> ts]

\* How the wait of line 147 ends: Runner.run raises an Exception, or
\* result.final_output is a list of items or a single value.
RunRaised(msg) == [kind |-> "raise", msg |-> msg, items |-> <<>>]
FinalList(items) == [kind |-> "list", msg |-> <<>>, items |-> items]
FinalSingle(v) == [kind |-> "single", msg |-> <<>>, items |-> <<v>>]
NoOutcome == [kind |-> "none", msg |-> <<>>, items |-> <<>>]

\* the items of a trending batch: the i-th is one of two articles in turn
BatchItem(i) ==
    IF i % 2 = 1 THEN TrendingNewsItem(Lit("H1"), Lit("GNews"), Lit("D1"))
    ELSE TrendingNewsItem(Lit("H2"), Lit("Unknown"), S(<<>>))

Batch(n) == [i \in 1..n |-> BatchItem(i)]

\* a dict with a headline and neither source nor summary
HeadlineOnly ==
    Value("dict", Fields(Lit("H3"), Absent, Absent, Absent, ListAbsent, Absent, ListAbsent), <<>>)

TurnOutcomes ==
    {RunRaised(<<"Max turns (10) exceeded">>),
     FinalSingle(Plain(<<"Here is the news.">>)),
     FinalSingle(FactCheckResult(Lit("Supporting sources found"), <<Lit("L1"), Lit("L2")>>)),
     FinalSingle(NewsSummary(Lit("Custom Article Summary"), <<Lit("point one")>>)),
     FinalSingle(HeadlineOnly)}
    \cup {FinalList(Batch(n)) : n \in 0..MaxBatch}

\* the four keys of st.session_state
Session ==
    [chat_history |-> chat_history, thread_id |-> thread_id,
     user_context |-> user_context, processing_message |-> processing_message]

\* handle_user_input with the history replaced by the new turn
HandleUserInputOverwrites(st, m, ts) ==
    [st EXCEPT !.chat_history = <<Turn("user", m, ts)>>, !.processing_message = S(m)]

\* lines 92-99
HandleUserInput(st, m, ts) ==
    [st EXCEPT !.chat_history = Append(@, Turn("user", m, ts)), !.processing_message = S(m)]

\* lines 105-107
SavePreferencesClicked(st, sel) ==
    [st EXCEPT !.user_context.preferred_topics = sel]

\* New Session that also starts a new UserContext
NewSessionClickedRecreates(st, uuid) ==
    [st EXCEPT !.chat_history = <<>>, !.thread_id = uuid,
               !.user_context = UserContext(@.obj + 1, uuid, @.session_start)]

\* lines 110-113
NewSessionClicked(st, uuid) ==
    [st EXCEPT !.chat_history = <<>>, !.thread_id = uuid]

ErrorTurn(msg, ts) == Turn("assistant", <<"Error: ">> \o msg, ts)

\* lines 155-161 (and 163-168 for a single value): one assistant turn per item,
\* until format_response raises, which leaves the loop for the except clause
\* Each append reads the clock (lines 160, 167, 173): clock is the sequence of
\* the readings datetime.now() gives, the first for the first append.
RECURSIVE RenderTurns(_, _)
RenderTurns(items, clock) ==
    IF items = <<>> THEN <<>>
    ELSE LET r == format_response(Head(items))
         IN IF r.raised THEN <<ErrorTurn(r.text, Head(clock))>>
            ELSE <<Turn("assistant", r.text, Head(clock))>>
                 \o RenderTurns(Tail(items), Tail(clock))

\* lines 153-174, once Runner.run has returned or raised an Exception
AssistantTurns(outcome, clock) ==
    IF outcome.kind = "raise" THEN <<ErrorTurn(outcome.msg, Head(clock))>>
    ELSE RenderTurns(outcome.items, clock)

\* the appends of lines 153-174 are at most one per item, one when the turn raised
Appends(outcome) == IF outcome.kind = "raise" THEN 1 ELSE Len(outcome.items)

\* the readings of the clock during n appends
Readings(n) == [1..n -> Timestamps]

\* a str is true when it is not empty, None is false
Truthy(v) == v.p = "str" /\ v.s # <<>>

\* lines 142-144: the pending message is taken and the slot cleared
TakePending(st) == [st EXCEPT !.processing_message = Null]

\* lines 153-174
AppendTurns(st, outcome, clock) ==
    [st EXCEPT !.chat_history = @ \o AssistantTurns(outcome, clock)]

\* The event a run of the script sees: at most one of the chat input and the
\* two buttons.
Event(trigger, msg, sel, uuid) == [trigger |-> trigger, msg |-> msg, sel |-> sel, uuid |-> uuid]

\* lines 101-113: the sidebar
Sidebar(st, ev) ==
    IF ev.trigger = "save" THEN SavePreferencesClicked(st, ev.sel)
    ELSE IF ev.trigger = "new_session" THEN NewSessionClicked(st, ev.uuid)
    ELSE st

\* whether the run reaches the wait of line 147: no chat input (st.rerun() of
\* line 139 ends the run) and a message pending
TakesPending(st, ev) == ev.trigger # "submit" /\ Truthy(st.processing_message)

\* lines 101-147, a run up to its end or to the wait of line 147
ScriptRun(st, ev, ts) ==
    LET sidebar == Sidebar(st, ev)
    IN IF ev.trigger = "submit" THEN HandleUserInput(sidebar, ev.msg.s, ts)
       ELSE IF TakesPending(sidebar, ev) THEN TakePending(sidebar)
       ELSE sidebar

Idle == [phase |-> "idle", user_input |-> Null]
Awaiting(m) == [phase |-> "awaiting", user_input |-> m]

Observed(step, ev, input, lost, outcome) ==
    [step |-> step, trigger |-> ev.trigger, msg |-> ev.msg, sel |-> ev.sel,
     user_input |-> input, overwrote |-> lost, outcome |-> outcome]

NoEvent == Event("none", Null, {}, "")

Put(st) ==
    /\ chat_history' = st.chat_history
    /\ thread_id' = st.thread_id
    /\ user_context' = st.user_context
    /\ processing_message' = st.processing_message

Run(ev, ts) ==
    /\ Put(ScriptRun(Session, ev, ts))
    /\ turn' = IF TakesPending(Session, ev) THEN Awaiting(processing_message) ELSE Idle
    /\ last' = Observed("run", ev,
                        IF TakesPending(Session, ev) THEN processing_message ELSE Null,
                        IF ev.trigger = "submit" /\ Truthy(processing_message)
                            THEN processing_message ELSE Null,
                        NoOutcome)
    /\ UNCHANGED <<toolVars, fmtVars>>

\* one script runs per session: a run starts when none is waiting in line 147
ScriptIdle == turn.phase = "idle"

SubmitMessage ==
    \E m \in Messages, ts \in Timestamps :
        /\ ScriptIdle
        /\ Len(chat_history) + 1 + MaxBatch <= MaxHistory
        /\ Run(Event("submit", S(m), {}, ""), ts)

SavePreferences ==
    \E sel \in TopicSelections, ts \in Timestamps :
        /\ ScriptIdle
        /\ Run(Event("save", Null, sel, ""), ts)

NewSession ==
    \E u \in UUIDs, ts \in Timestamps :
        /\ ScriptIdle
        /\ Run(Event("new_session", Null, {}, u), ts)

Rerun ==
    \E ts \in Timestamps :
        /\ ScriptIdle
        /\ Run(NoEvent, ts)

\* lines 147-175: Runner.run returned or raised an Exception
FinishTurn ==
    \E o \in TurnOutcomes :
      \E clock \in Readings(Appends(o)) :
        /\ turn.phase = "awaiting"
        /\ Put(AppendTurns(Session, o, clock))
        /\ turn' = Idle
        /\ last' = Observed("finish", NoEvent, turn.user_input, Null, o)
        /\ UNCHANGED <<toolVars, fmtVars>>

\* line 147 left by what "except Exception" does not catch (a BaseException
\* such as asyncio.CancelledError, Streamlit stopping the script): the run
\* ends there
InterruptTurn ==
    /\ turn.phase = "awaiting"
    /\ turn' = Idle
    /\ last' = Observed("interrupt", NoEvent, turn.user_input, Null, NoOutcome)
    /\ UNCHANGED <<chat_history, thread_id, user_context, processing_message,
                   toolVars, fmtVars>>

\* lines 63-71, the first run of the script in a browser session
InitUi ==
    /\ chat_history = <<>>
    /\ thread_id \in UUIDs
    /\ \E u \in UUIDs, t \in Times : user_context = UserContext(1, u, t)
    /\ processing_message = Null
    /\ turn = Idle
    /\ last = Observed("load", NoEvent, Null, Null, NoOutcome)
    /\ IdleTools /\ IdleFmt

NextUi ==
    SubmitMessage \/ SavePreferences \/ NewSession \/ Rerun \/ FinishTurn \/ InterruptTurn

SpecUi == InitUi /\ [][NextUi]_vars

(***************************************************************************)
(* Claims about the capability invokers, checked under SpecTools.          *)
(***************************************************************************)
IsStr(v) == v.p = "str"

NewsShapeOk(v) ==
    \A i \in 1..Len(v) :
        /\ IsStr(v[i].headline) /\ IsStr(v[i].source)
        /\ IsStr(v[i].category) /\ IsStr(v[i].summary)
        /\ v[i].rank \in Int

FactShapeOk(v) ==
    /\ v.is_true.p = "null"
    /\ IsStr(v.verdict)
    /\ \A i \in 1..Len(v.sources) : IsStr(v.sources[i])

SummaryShapeOk(v) ==
    /\ IsStr(v.topic)
    /\ \A i \in 1..Len(v.bullet_points) : IsStr(v.bullet_points[i])

\* C1: whatever the input and the provider's outcome, each invoker returns
\* (it never propagates an exception) a value of its successful shape whose
\* every field has a type the declared output record accepts (str for
\* headline, source, category, summary, verdict, topic and the elements of
\* sources and bullet_points, int for rank, None for is_true).
C1_NeverRaisesSameShape ==
    ret.tool # "none" =>
        /\ ~ret.raised
        /\ ret.tool = "news" => NewsShapeOk(ret.value)
        /\ ret.tool = "fact" => FactShapeOk(ret.value)
        /\ ret.tool = "sum" => SummaryShapeOk(ret.value)

\* the web search answered with a JSON object whose "items" is a list
FactListed == call.tool = "fact" /\ ret.tool = "fact"
              /\ call.outcome.kind = "response"
              /\ call.outcome.body.json = "object"
              /\ call.outcome.body.field = "list"

FactItems == call.outcome.body.list

FactHead == SubSeq(FactItems, 1, IF Len(FactItems) < 3 THEN Len(FactItems) ELSE 3)

FactHeadLinked == \A i \in 1..Len(FactHead) : FactHead[i].dict /\ FactHead[i].link.p # "absent"

FactVerdictBySize ==
    /\ ret.value.is_true = Null
    /\ FactItems = <<>> =>
           ret.value.verdict = Lit("Unverified claim") /\ ret.value.sources = <<>>
    /\ FactItems # <<>> =>
           /\ ret.value.verdict = Lit("Supporting sources found")
           /\ Len(ret.value.sources) = Len(FactHead)
           /\ \A i \in 1..Len(FactHead) : ret.value.sources[i] = FactHead[i].link

\* C2 (as stated): for every list of n items the web search returns, is_true
\* is null; n = 0 gives "Unverified claim" and no sources; n >= 1 gives
\* "Supporting sources found" and the links of the first min(3, n) items.
C2_AnyItemList == FactListed => FactVerdictBySize

\* C2 (amended): the same, for every list of n items whose first min(3, n)
\* items are objects that hold a link; when one of those items is not, the
\* result is is_true null, a verdict "Error: ..." and no sources.
C2_LinkedItemList ==
    FactListed =>
        /\ FactHeadLinked => FactVerdictBySize
        /\ ~FactHeadLinked =>
               /\ ret.value.is_true = Null
               /\ ret.value.verdict.s[1] = "Error: "
               /\ ret.value.sources = <<>>

C2_Witness ==
    /\ FactListed /\ FactHeadLinked
    /\ Len(FactItems) = 4
    /\ Len(ret.value.sources) = 3
    /\ ret.value.sources[1] # ret.value.sources[2]

\* the news search answered 200 with a JSON object whose "articles" is a
\* list of at least one element
NewsListed == call.tool = "news" /\ ret.tool = "news"
              /\ call.outcome.kind = "response"
              /\ call.outcome.status = 200
              /\ call.outcome.body.json = "object"
              /\ call.outcome.body.field = "list"
              /\ call.outcome.body.list # <<>>

NewsArticles == call.outcome.body.list

NewsArticlesWellFormed ==
    \A i \in 1..Len(NewsArticles) :
        NewsArticles[i].dict /\ NewsArticles[i].source.p # "null"

RanksAscendFromOne(v) ==
    /\ Len(v) >= 1
    /\ v[1].rank = 1
    /\ \A i \in 1..(Len(v) - 1) : v[i].rank < v[i + 1].rank

NewsBatchFollowsProvider ==
    /\ Len(ret.value) = Len(NewsArticles)
    /\ \A i \in 1..Len(NewsArticles) :
           /\ ret.value[i].rank = i
           /\ ret.value[i].category = call.topic
           /\ NewsArticles[i].title.p # "absent" => ret.value[i].headline = NewsArticles[i].title
           /\ NewsArticles[i].description.p # "absent" =>
                  ret.value[i].summary = NewsArticles[i].description

\* C3 (as stated): every trending batch is non-empty with strictly ascending
\* ranks from 1, and n >= 1 articles give exactly n items in provider order,
\* the i-th with rank i and the topic as category.
C3_AnyArticleList ==
    ret.tool = "news" =>
        /\ RanksAscendFromOne(ret.value)
        /\ NewsListed => NewsBatchFollowsProvider

\* C3 (amended): every trending batch is non-empty with strictly ascending
\* ranks from 1; n >= 1 articles that are all objects whose source is an
\* object or absent give exactly n items in provider order, the i-th with
\* rank i and the topic as category; when some article is not of that form
\* the batch is the single item "Error fetching news".
C3_WellFormedArticleList ==
    ret.tool = "news" =>
        /\ RanksAscendFromOne(ret.value)
        /\ NewsListed /\ NewsArticlesWellFormed => NewsBatchFollowsProvider
        /\ NewsListed /\ ~NewsArticlesWellFormed =>
               /\ Len(ret.value) = 1
               /\ ret.value[1].headline = Lit("Error fetching news")

C3_Witness ==
    /\ NewsListed /\ NewsArticlesWellFormed
    /\ Len(NewsArticles) = 2
    /\ Len(ret.value) = 2
    /\ ret.value[1].headline = Lit("T1")
    /\ ret.value[2].headline = Lit("T2")
    /\ ret.value[2].rank = 2
    /\ ret.value[2].category = Lit("tech")

BulletMarkers == {"-", "U+2022"}

\* C4: every element of bullet_points is non-empty after trimming white
\* space and does not begin with a bullet or dash marker, and the completion
\* "- point one\n- point two\n- point three" gives the three points.
C4_BulletsClean ==
    ret.tool = "sum" =>
        /\ \A i \in 1..Len(ret.value.bullet_points) :
               LET b == ret.value.bullet_points[i].s
               IN /\ Strip(b, Whitespace) # <<>>
                  /\ Head(b) \notin BulletMarkers
        /\ (call.outcome.kind = "response" /\ call.outcome.content = S(ScenarioCompletion)) =>
               ret.value.bullet_points =
                   <<Lit("point one"), Lit("point two"), Lit("point three")>>

SuccessVerdicts == {Lit("Unverified claim"), Lit("Supporting sources found")}

\* C5: an HTTP 500 answer, whatever its body, gives a single-element
\* degraded result whose summary (news search) or verdict (fact check)
\* describes the error, and not the result of a successful search.
C5_ServerErrorDescribed ==
    (ret.tool \in {"news", "fact"} /\ call.outcome.kind = "response"
        /\ call.outcome.status = 500) =>
        /\ ~ret.raised
        /\ ret.tool = "news" =>
               /\ Len(ret.value) = 1
               /\ ret.value[1].summary.s # <<>>
               /\ ret.value[1].summary.s[1] = "API error "
        /\ ret.tool = "fact" =>
               /\ ret.value.verdict \notin SuccessVerdicts
               /\ ret.value.verdict.s # <<>>
               /\ ret.value.verdict.s[1] = "Error: "
               /\ ret.value.sources = <<>>

(***************************************************************************)
(* Claims about format_response, checked under SpecFmt.                    *)
(***************************************************************************)
Has(v) == v.p # "absent"

\* the shapes of the three result records, by the fields each declares
TrendingShape(v) ==
    v.kind # "plain" /\ Has(v.fields.headline) /\ Has(v.fields.source) /\ Has(v.fields.summary)
FactShape(v) ==
    v.kind # "plain" /\ ~TrendingShape(v) /\ Has(v.fields.verdict) /\ v.fields.sources.p # "null"
SummaryShape(v) ==
    v.kind # "plain" /\ ~TrendingShape(v) /\ ~FactShape(v)
    /\ Has(v.fields.topic) /\ v.fields.bullet_points.p = "list"

\* str(v) of the value itself
OwnText(v) ==
    IF v.kind = "plain" THEN v.text
    ELSE IF v.kind = "dict" THEN <<ToString(v.fields)>>
    ELSE <<v.kind, "(", ToString(v.fields), ")">>

LinkLine(x) == <<"- [", x.s[1], "](", x.s[1], ")">>
PointLine(x) == <<"- ", x.s[1]>>

\* one line per element of l, in order, a line break between two lines
RECURSIVE LinkLines(_)
LinkLines(l) ==
    IF l = <<>> THEN <<>>
    ELSE LET init == SubSeq(l, 1, Len(l) - 1)
         IN (IF init = <<>> THEN <<>> ELSE LinkLines(init) \o <<"\n">>) \o LinkLine(l[Len(l)])

RECURSIVE PointLines(_)
PointLines(l) ==
    IF l = <<>> THEN <<>>
    ELSE LET init == SubSeq(l, 1, Len(l) - 1)
         IN (IF init = <<>> THEN <<>> ELSE PointLines(init) \o <<"\n">>) \o PointLine(l[Len(l)])

TrendingText(f) ==
    <<"**">> \o StrOf(f.headline) \o <<"**\n\n_", f.source.s[1], " U+2013 ", f.summary.s[1]>>
FactText(f) ==
    <<"**Verdict:** ", f.verdict.s[1], "\n\n**Sources:**\n">> \o LinkLines(f.sources.l)
SummaryText(f) ==
    <<"**Topic:** ", f.topic.s[1], "\n\n">> \o PointLines(f.bullet_points.l)

\* C9 (as stated): format_response renders a trending item as headline +
\* source + summary, a fact-check result as the verdict line and one bulleted
\* link per source, a summary as the topic line and one bullet per point, and
\* every value of any other shape as its own textual representation; every
\* value is rendered by exactly one of the four.
C9_EveryShapeRendered ==
    fmt_out.done =>
        /\ ~fmt_out.raised
        /\ TrendingShape(fmt_in) => fmt_out.text = TrendingText(fmt_in.fields)
        /\ FactShape(fmt_in) => fmt_out.text = FactText(fmt_in.fields)
        /\ SummaryShape(fmt_in) => fmt_out.text = SummaryText(fmt_in.fields)
        /\ (~TrendingShape(fmt_in) /\ ~FactShape(fmt_in) /\ ~SummaryShape(fmt_in)) =>
               fmt_out.text = OwnText(fmt_in)

\* the first of headline, verdict, bullet_points that the mapping holds
Discriminant(f) ==
    IF Has(f.headline) THEN "headline"
    ELSE IF Has(f.verdict) THEN "verdict"
    ELSE IF Has(f.bullet_points) THEN "bullet_points"
    ELSE "none"

\* C9 (amended): format_response dispatches on the first of the keys
\* headline, verdict, bullet_points that its argument (a dict, or the
\* model_dump() or __dict__ of an object) holds: headline renders headline +
\* source + summary, verdict the verdict line and one bulleted link per source
\* in order, bullet_points the topic line and one bullet per point in order;
\* a mapping with none of the three renders as the textual representation of
\* that mapping, any other value as its own.  The call raises instead of
\* rendering exactly when the chosen branch reads a key the mapping lacks
\* (source, summary; topic) or a sources or bullet_points that is None.
C9_DispatchOnFirstKey ==
    fmt_out.done =>
        LET f == fmt_in.fields
            d == Discriminant(f)
        IN IF fmt_in.kind = "plain"
               THEN ~fmt_out.raised /\ fmt_out.text = fmt_in.text
           ELSE /\ d = "headline" =>
                      IF Has(f.source) /\ Has(f.summary)
                          THEN ~fmt_out.raised /\ fmt_out.text = TrendingText(f)
                      ELSE fmt_out.raised
                /\ d = "verdict" =>
                      IF f.sources.p # "null"
                          THEN ~fmt_out.raised /\ fmt_out.text = FactText(f)
                      ELSE fmt_out.raised
                /\ d = "bullet_points" =>
                      IF Has(f.topic) /\ f.bullet_points.p = "list"
                          THEN ~fmt_out.raised /\ fmt_out.text = SummaryText(f)
                      ELSE fmt_out.raised
                /\ d = "none" => ~fmt_out.raised /\ fmt_out.text = <<ToString(f)>>

C9_Witness ==
    /\ fmt_out.done /\ ~fmt_out.raised
    /\ fmt_in.kind = "pydantic"
    /\ Discriminant(fmt_in.fields) = "verdict"
    /\ fmt_in.fields.sources = ListOf(<<Lit("x"), Lit("y")>>)
    /\ fmt_out.text = <<"**Verdict:** ", "V", "\n\n**Sources:**\n",
                        "- [", "x", "](", "x", ")", "\n", "- [", "y", "](", "y", ")">>

(***************************************************************************)
(* Claims about the chat driver, checked under SpecUi.                     *)
(***************************************************************************)
IsPrefix(a, b) == Len(a) <= Len(b) /\ SubSeq(b, 1, Len(a)) = a

NewSessionStep == last'.step = "run" /\ last'.trigger = "new_session"

\* the turn returned and every item of its result was rendered
AllRendered(o) ==
    /\ o.kind \in {"list", "single"}
    /\ \A i \in 1..Len(o.items) : ~format_response(o.items[i]).raised

C7_Step ==
    /\ ~NewSessionStep => IsPrefix(chat_history, chat_history')
    /\ (last'.step = "run" /\ last'.trigger = "submit") =>
           /\ Len(chat_history') = Len(chat_history) + 1
           /\ chat_history'[Len(chat_history')].role = "user"
           /\ chat_history'[Len(chat_history')].content = last'.msg.s
    /\ last'.step = "finish" =>
           /\ \A i \in (Len(chat_history) + 1)..Len(chat_history') :
                  chat_history'[i].role = "assistant"
           /\ chat_history = <<>>
              \/ /\ chat_history[Len(chat_history)].role = "user"
                 /\ chat_history[Len(chat_history)].content = last'.user_input.s
    /\ (last'.step = "finish" /\ AllRendered(last'.outcome)) =>
           LET items == last'.outcome.items
               n == Len(chat_history)
           IN /\ Len(chat_history') = n + Len(items)
              /\ \A i \in 1..Len(items) :
                     chat_history'[n + i].content = format_response(items[i]).text
    /\ (chat_history # <<>> /\ chat_history' = <<>>) => NewSessionStep

\* C7: the chat history is append-only: every step other than a New Session
\* run keeps the entries it found as a prefix, a submitted input is appended
\* as a user turn, the rendered results of a turn are appended at the end (so
\* after the user turn, while the history still holds it) as assistant turns
\* in order, and the history becomes empty only through New Session.  The
\* turns of a finished turn go behind the user turn of its message, unless a
\* New Session run found that message pending and emptied the history.
C7_AppendOnly == [][C7_Step]_vars

C7_Witness ==
    /\ last.step = "run" /\ last.trigger = "submit"
    /\ Len(chat_history) >= 3
    /\ chat_history[1].role = "user"
    /\ chat_history[2].role = "assistant"
    /\ chat_history[Len(chat_history)].role = "user"

C8_Step ==
    /\ user_context'.obj = 1
    /\ user_context'.user_id = user_context.user_id
    /\ user_context'.session_start = user_context.session_start
    /\ (last'.step = "run" /\ last'.trigger = "save") =>
           user_context' = [user_context EXCEPT !.preferred_topics = last'.sel]
    /\ ~(last'.step = "run" /\ last'.trigger = "save") => user_context' = user_context

\* C8: the SessionContext is constructed once and never replaced, its user id
\* and session start never change, Save Preferences changes only its
\* preferred topics, and New Session (as every other step) leaves it as it is.
C8_ContextStable == [][C8_Step]_vars

C8_Witness ==
    /\ last.step = "run" /\ last.trigger = "new_session"
    /\ thread_id # user_context.user_id
    /\ user_context.preferred_topics = {"tech", "politics"}
    /\ user_context.obj = 1

\* str(e) of the exception that ended the turn: the one Runner.run raised, or
\* the one the rendering of an item raised
ErrorText(o) ==
    IF o.kind = "raise" THEN o.msg
    ELSE format_response(
             o.items[CHOOSE i \in 1..Len(o.items) :
                         /\ format_response(o.items[i]).raised
                         /\ \A j \in 1..(i - 1) : ~format_response(o.items[j]).raised]).text

\* the history ends with the user turn of message m and k >= 1 assistant turns
\* after it: the rendered results of outcome o, or the one error turn
AnsweredAtEnd(m, o) ==
    \E k \in 1..Len(chat_history) :
        LET n == Len(chat_history) - k
        IN /\ n >= 1
           /\ chat_history[n].role = "user"
           /\ chat_history[n].content = m
           /\ \A i \in (n + 1)..Len(chat_history) : chat_history[i].role = "assistant"
           /\ IF ~AllRendered(o)
                  THEN k = 1 /\ chat_history[n + 1].content = <<"Error: ">> \o ErrorText(o)
              ELSE /\ k = Len(o.items)
                   /\ \A i \in 1..k :
                          chat_history[n + i].content = format_response(o.items[i]).text

\* C10: every submitted message is processed once and answered: no pending
\* message is replaced before it is processed, the slot is empty while the
\* turn runs, and when the turn has ended the history holds, after that user
\* turn, at least one assistant turn: the rendered results of the turn, or the
\* single turn "Error: <message>" when the turn raised.
C10_EveryMessageAnswered ==
    /\ last.overwrote = Null
    /\ turn.phase = "awaiting" => processing_message = Null
    /\ last.step \in {"finish", "interrupt"} =>
           /\ processing_message = Null
           /\ AnsweredAtEnd(last.user_input.s, last.outcome)
====
